---- MODULE Spec2Model ----
(***************************************************************************)
(* Model of sfdx-data-splitter: the command invoker of lib/utils.js        *)
(* (_execCommand and the reporters, telemetry and exit step it composes)   *)
(* and the data splitter of lib/data/dataApi.js with the error factory and *)
(* message catalog it uses.                                                *)
(***************************************************************************)
EXTENDS Integers, Sequences, FiniteSets, TLC

(***************************************************************************)
(* Values                                                                  *)
(***************************************************************************)

\* JavaScript undefined, for process.exitCode and for optional settings.
Undef == -1

\* process.exitCode values a command may set while it validates or executes.
ExitCodeOverrides == {0, 2}

\* a || d on numbers: d when a is undefined or 0.
OrElse(a, d) == IF a = Undef \/ a = 0 THEN d ELSE a

\* What process.exit(code) terminates the process with.
ExitStatusOf(code) == IF code = Undef THEN 0 ELSE code

Last(s) == s[Len(s)]

RECURSIVE CountOf(_, _)
CountOf(s, e) ==
    IF s = <<>> THEN 0
    ELSE (IF Last(s) = e THEN 1 ELSE 0) + CountOf(SubSeq(s, 1, Len(s) - 1), e)

\* Position of the first occurrence of e in s, 0 when absent.
RECURSIVE FirstIndex(_, _, _)
FirstIndex(s, e, i) ==
    IF i > Len(s) THEN 0
    ELSE IF s[i] = e THEN i
    ELSE FirstIndex(s, e, i + 1)

(***************************************************************************)
(* lib/messages.js                                                         *)
(***************************************************************************)

Bundles == {"default", "data", "data_split"}

\* The en_US labels of each bundle.
Labels(bundle) ==
    CASE bundle = "default" -> {"displayCommandDataSplitHelp"}
      [] bundle = "data" -> {"name", "mainTopicDescriptionHelp",
                             "mainTopicLongDescriptionHelp"}
      [] bundle = "data_split" -> {"help", "description", "longDescription",
                                   "GeneralError", "dataSplitFileNotFound"}

LabelText(bundle, label) ==
    CASE label = "displayCommandDataSplitHelp" ->
            "Break up large data files into file with 200 or less records"
      [] label = "name" -> "data"
      [] label = "mainTopicDescriptionHelp" -> "Utility for manipulating data"
      [] label = "mainTopicLongDescriptionHelp" -> "Utility for manipulating data"
      [] label = "help" ->
            "Split data files that have more than 200 records into smaller bits"
      [] label = "description" -> "Split large data files into smaller ones"
      [] label = "longDescription" -> "Split large data files into smaller ones"
      [] label = "GeneralError" -> "A general error for the Data split command."
      [] label = "dataSplitFileNotFound" -> "Could not find specified file"

\* getMessage(label, args, bundle) for a call without substitution tokens:
\* the label's text, or the Error thrown for a label the bundle lacks, whose
\* message is util.format(undefined, bundle, label, locale).
GetMessage(label, bundle) ==
    IF label \in Labels(bundle)
    THEN [thrown |-> FALSE, text |-> LabelText(bundle, label)]
    ELSE [thrown |-> TRUE,
          text |-> "undefined " \o bundle \o " " \o label \o " en_US"]

(***************************************************************************)
(* lib/pluginError.js                                                      *)
(***************************************************************************)

\* Hash of error keys to error names.
PluginErrors(key) ==
    CASE key = "dataSplitFileNotFound" -> "InvalidDataImport"
      [] key = "sourcePushFailed" -> "DeployFailed"
      [] OTHER -> key

\* PluginError(errorKey) with a string key and no action key: the error it
\* returns, or the Error that the message lookup throws.
PluginError(errorKey) ==
    LET m == GetMessage(errorKey, "default")
    IN  IF m.thrown
        THEN [name |-> "Error", message |-> m.text, action |-> FALSE,
              rows |-> FALSE, columns |-> FALSE]
        ELSE [name |-> PluginErrors(errorKey), message |-> m.text,
              action |-> FALSE, rows |-> FALSE, columns |-> FALSE]

(***************************************************************************)
(* lib/data/dataApi.js: values                                             *)
(***************************************************************************)

\* A file path relative to the manifest's folder: its directory and the
\* components of its base name between the dots.
Path(dir, parts) == [dir |-> dir, parts |-> parts]

FileA == Path("", <<"a", "json">>)
FileB == Path("", <<"b", "json">>)
FileC == Path("", <<"c", "json">>)

FileNames == {FileA, FileB, FileC}

\* A file in a subfolder that has the base name of FileB, and a file whose
\* base name is the one of FileB followed by a record offset.
FileSubB == Path("sub", <<"b", "json">>)
FileB200 == Path("", <<"b200", "json">>)

NamedFiles == FileNames \cup {FileSubB, FileB200}

\* Records are opaque: record k of the file whose id is fid.
RecordsOf(fid, n) == [k \in 1..n |-> fid * 1000 + k]

FileId(f) == CASE f = FileA -> 1 [] f = FileB -> 2 [] f = FileC -> 3
                [] f = FileSubB -> 4 [] f = FileB200 -> 5

\* The record counts of the data files on disk, per scenario.
DiskSizes ==
    { [f \in FileNames |-> CASE f = FileA -> 150 [] f = FileB -> 300
                             [] f = FileC -> 401],
      [f \in FileNames |-> CASE f = FileA -> 200 [] f = FileB -> 201
                             [] f = FileC -> 400] }

\* The record counts of a disk that holds the files of NamedFiles.
NamedDiskSizes ==
    [f \in NamedFiles |-> CASE f = FileA -> 150 [] f = FileB -> 300
                            [] f = FileC -> 401 [] f = FileSubB -> 201
                            [] f = FileB200 -> 150]

\* Bounds on the manifests: the plan entries of a manifest, and the files
\* that its entries reference in all.
MaxEntries == 2
MaxFiles == 3

SeqsUpTo(S, n) == UNION { [1..m -> S] : m \in 0..n }

\* The plans of at most n entries {files: [...]} that reference at most b
\* files in all.
RECURSIVE PlansOf(_, _)
PlansOf(n, b) ==
    IF n = 0 THEN { <<>> }
    ELSE { <<>> } \cup
         UNION { { << [files |-> fl] >> \o rest : rest \in PlansOf(n - 1, b - Len(fl)) } :
                 fl \in SeqsUpTo(FileNames, b) }

Manifests == PlansOf(MaxEntries, MaxFiles)

\* Bound on the manifests over NamedFiles: their plan entries, and the files
\* that the entries reference in all.
MaxNamed == 2

\* The plans of at most n entries that reference at most b files of
\* NamedFiles in all.
RECURSIVE NamedPlansOf(_, _)
NamedPlansOf(n, b) ==
    IF n = 0 THEN { <<>> }
    ELSE { <<>> } \cup
         UNION { { << [files |-> fl] >> \o rest :
                     rest \in NamedPlansOf(n - 1, b - Len(fl)) } :
                 fl \in SeqsUpTo(NamedFiles, b) }

NamedManifests == NamedPlansOf(MaxNamed, MaxNamed)

\* const chunk = 200, and the threshold of the records.length test.
chunk == 200
SplitThreshold == 200

\* path.basename(f).split('.')
fname(f) == f.parts

\* fname[0] + i + '.' + fname[1]: the chunk's file name, which has no
\* directory; a base name without a dot has fname[1] undefined.
ChunkFileName(f, i) ==
    Path("", << fname(f)[1] \o ToString(i),
                IF Len(fname(f)) >= 2 THEN fname(f)[2] ELSE "undefined" >>)

\* A slice that stops one record early.
SliceShort(records, i, n) ==
    SubSeq(records, i + 1,
           IF i + n - 1 < Len(records) THEN i + n - 1 ELSE Len(records))

\* records.slice(i, i + chunk), i counted from 0.
Slice(records, i, n) ==
    SubSeq(records, i + 1, IF i + n < Len(records) THEN i + n ELSE Len(records))

\* The writes of the loop for (i = 0; i < records.length; i += chunk), from
\* offset i on: one _writeDataFile call per iteration.
RECURSIVE ChunkWrites(_, _, _)
ChunkWrites(f, records, i) ==
    IF i < Len(records)
    THEN << [isPlan |-> FALSE, name |-> ChunkFileName(f, i),
             records |-> Slice(records, i, chunk), plan |-> <<>>] >>
         \o ChunkWrites(f, records, i + chunk)
    ELSE <<>>

WriteNames(ws) == [j \in 1..Len(ws) |-> ws[j].name]

RECURSIVE ConcatRecords(_)
ConcatRecords(ws) ==
    IF ws = <<>> THEN <<>> ELSE Head(ws).records \o ConcatRecords(Tail(ws))

CeilDiv(n, d) == (n + d - 1) \div d

(***************************************************************************)
(* lib/utils.js: errors and results                                        *)
(***************************************************************************)

\* An error: its name and message, and whether it carries an action, rows
\* and columns.
ErrWith(name, message, action, rows, columns) ==
    [name |-> name, message |-> message, action |-> action, rows |-> rows,
     columns |-> columns]

Err(name, message) == ErrWith(name, message, FALSE, FALSE, FALSE)

ErrValidation == Err("ValidationError", "Validation failed")
ErrExecute == Err("Error", "Command failed")
ErrSession == Err("Error", "Session expired or invalid")
ErrOrgConfig == Err("Error", "No org configuration")
ErrConfig == Err("InvalidConfig", "Invalid application config")
ErrServer == Err("Error", "Could not log the error on the server")
ErrTelemetry == Err("Error", "Could not record the usage")

\* What a command's execute resolves with.
ResultValues == {"value", "emptyArray"}

(***************************************************************************)
(* lib/utils.js: _logSuccess and _logError                                 *)
(***************************************************************************)

NoReport == [kind |-> "none", mode |-> "", status |-> Undef, name |-> "",
             message |-> ""]

\* _logSuccess: the report it emits, or the error it throws.  In api mode it
\* logs {status: process.exitCode || 0, result}; in human mode an empty array
\* is answered with the noResultsFound message, and any other result with
\* getHumanSuccessMessage, the command having no getColumnData.
logSuccess(json, code, obj) ==
    IF json
    THEN [thrown |-> FALSE, err |-> Err("", ""),
          report |-> [kind |-> "success", mode |-> "json",
                      status |-> OrElse(code, 0), name |-> "", message |-> obj]]
    ELSE IF obj = "emptyArray"
    THEN LET m == GetMessage("noResultsFound", "default")
         IN  [thrown |-> m.thrown, err |-> Err("Error", m.text),
              report |-> IF m.thrown THEN NoReport
                         ELSE [kind |-> "success", mode |-> "human",
                               status |-> Undef, name |-> "", message |-> m.text]]
    ELSE [thrown |-> FALSE, err |-> Err("", ""),
          report |-> [kind |-> "success", mode |-> "human", status |-> Undef,
                      name |-> "", message |-> ""]]

\* err.message.match(/Session expired or invalid/) || .match(/Destination URL
\* not reset/), over the messages of the model's errors.
MatchesSessionPattern(message) ==
    message \in {"Session expired or invalid", "Destination URL not reset"}

\* The status field of the composed error: process.exitCode || 1.
errorStatus(code) == OrElse(code, 1)

\* The logger call of human mode: logger.action when the composed error has
\* an action, else logger.table when err has rows and columns, else
\* logger.error.
humanErrorRendering(action, rows, columns) ==
    IF action THEN "action"
    ELSE IF rows /\ columns THEN "table"
    ELSE "text"

\* _logError: the report it emits, or the error it throws while it looks up
\* the remediation action for an expired session of a token-based org.  In
\* human mode the composed error is also passed to logger.error(false, error).
logError(json, org, code, err) ==
    LET needsAction == org = "token" /\ ~err.action
                          /\ MatchesSessionPattern(err.message)
        m == GetMessage("invalidInstanceUrlForAccessTokenAction", "default")
    IN  IF needsAction /\ m.thrown
        THEN [thrown |-> TRUE, err |-> Err("Error", m.text), report |-> NoReport]
        ELSE [thrown |-> FALSE, err |-> Err("", ""),
              report |-> [kind |-> "error",
                          mode |-> IF json THEN "json" ELSE "human",
                          status |-> errorStatus(code), name |-> err.name,
                          message |-> err.message,
                          rendering |->
                             IF json THEN "json"
                             ELSE humanErrorRendering(err.action \/ needsAction,
                                                      err.rows, err.columns),
                          structured |-> ~json]]

(***************************************************************************)
(* lib/utils.js: _logCommandComplete                                       *)
(***************************************************************************)

dayInMilliseconds == 1000 * 60 * 60 * 24

\* The time of the call itself instead of the start of its day.
StartOfDayNow(t) == t

\* new Date(year, month, date).getTime() of t, the local zone taken as UTC.
StartOfDay(t) == t - (t % dayInMilliseconds)

\* The clock of the modelled invocation: 01:00 on the fourth day, and the
\* midnight that starts that day.
Midnight0 == 3 * dayInMilliseconds
Now0 == Midnight0 + 3600000

\* An execution reported by the analytics command.
Execution(command, version, pluginVersion, runtime, status) ==
    [command |-> command, version |-> version, plugin_version |-> pluginVersion,
     runtime |-> runtime, status |-> status]

SampleFeed ==
    << Execution("force:org:list", "5.7.6", "", 120, 0),
       Execution("djc:data:split", "5.7.6", "0.0.1", 41, 1),
       Execution("force:org:list", "5.7.6", "", 45, 0) >>

toolbeltVersion(c) ==
    IF c.plugin_version # "" THEN c.version \o " " \o c.plugin_version
    ELSE c.version

\* A key of the command name alone.
commandKeyNameOnly(c) == c.command

\* const commandKey = `${command.command}-${version}`
commandKey(c) == c.command \o "-" \o toolbeltVersion(c)

\* Math.round(a / b) for a >= 0 and b > 0.
RoundDiv(a, b) == (2 * a + b) \div (2 * b)

KeyIndex(usages, key) ==
    FirstIndex([j \in 1..Len(usages) |-> usages[j].commandKey], key, 1)

\* The average computed with the count after its increment.
runningAveragePostIncrement(avg, n, runtime) ==
    RoundDiv(runtime + avg * (n + 1), n + 2)

\* Math.round((runtime + (avgRuntime * totalExecutions)) / (totalExecutions +
\* 1)), evaluated before totalExecutions++.
runningAverage(avg, n, runtime) == RoundDiv(runtime + avg * n, n + 1)

\* The body of commands.forEach: usages after the execution c.
AddExecution(usages, c) ==
    LET key == commandKey(c)
        seen == KeyIndex(usages, key)
        us == IF seen # 0 THEN usages
              ELSE Append(usages,
                     [commandKey |-> key, commandName |-> c.command,
                      toolbeltVersion |-> toolbeltVersion(c),
                      totalExecutions |-> 0, totalErrors |-> 0, avgRuntime |-> 0,
                      minRuntime |-> c.runtime, maxRuntime |-> c.runtime])
        j == KeyIndex(us, key)
        u == us[j]
    IN  [us EXCEPT ![j] =
            [u EXCEPT
               !.totalErrors = IF c.status # 0 THEN @ + 1 ELSE @,
               !.avgRuntime = runningAverage(u.avgRuntime, u.totalExecutions,
                                             c.runtime),
               !.totalExecutions = @ + 1,
               !.maxRuntime = IF c.runtime > @ THEN c.runtime ELSE @,
               !.minRuntime = IF c.runtime > u.maxRuntime THEN @
                              ELSE IF c.runtime < @ THEN c.runtime ELSE @]]

RECURSIVE calcUsage(_, _)
calcUsage(usages, commands) ==
    IF commands = <<>> THEN usages
    ELSE calcUsage(AddExecution(usages, Head(commands)), Tail(commands))

\* The step of the telemetry flow that fails, if any.
TelemetryFailures ==
    {"none", "load", "save", "hubConfig", "feedStatus", "feedParse", "submit"}

\* A test that any time at or after startTime passes.
isRolloverAtOnce(t, startTime) == t - startTime >= 0

\* now.getTime() - contents.startTime >= dayInMilliseconds
isRollover(t, startTime) == t - startTime >= dayInMilliseconds

Telemetry(u, an, sk, ok, io) ==
    [usage |-> u, analytics |-> an, sink |-> sk, ok |-> ok, ops |-> io]

\* The promise chain of _logCommandComplete up to its catch: the persisted
\* state, the analytics source and the sink after it, whether it resolved,
\* and the operations it performed on the persisted state ("load", "save"),
\* the hub org ("hubConfig"), the analytics command ("analytics",
\* "analytics:clear") and the server ("submit"), in order.
usageChain(u, an, sk, t, fail) ==
    LET timestamp == StartOfDay(t)
        first == u.startTime = 0
        startTime == IF first THEN timestamp ELSE u.startTime
        u1 == IF first /\ fail # "save" THEN [startTime |-> timestamp] ELSE u
        submits == fail \notin {"feedStatus", "feedParse"}
        sk1 == IF submits THEN Append(sk, calcUsage(<<>>, an)) ELSE sk
        ops1 == << "load" >> \o (IF first THEN << "save" >> ELSE <<>>)
        ops2 == ops1 \o << "hubConfig" >>
        ops4 == ops2 \o << "analytics" >>
                     \o (IF submits THEN << "submit" >> ELSE <<>>)
        ops5 == ops4 \o << "analytics:clear", "save" >>
    IN  IF fail = "load" THEN Telemetry(u, an, sk, FALSE, << "load" >>)
        ELSE IF isRollover(t, startTime)
        THEN IF fail = "hubConfig" THEN Telemetry(u1, an, sk, FALSE, ops2)
             ELSE IF fail = "submit" THEN Telemetry(u1, an, sk, FALSE, ops4)
             ELSE IF fail = "save" THEN Telemetry(u1, <<>>, sk1, FALSE, ops5)
             ELSE Telemetry([startTime |-> timestamp], <<>>, sk1, TRUE, ops5)
        ELSE Telemetry(u1, an, sk, ~(first /\ fail = "save"), ops1)

\* The chain without its final catch.
logCommandCompleteNoCatch(u, an, sk, t, fail) == usageChain(u, an, sk, t, fail)

\* _logCommandComplete: the chain with its final catch, which resolves
\* whatever the chain did.
logCommandComplete(u, an, sk, t, fail) ==
    [usageChain(u, an, sk, t, fail) EXCEPT !.ok = TRUE]

(***************************************************************************)
(* lib/utils.js: _exit                                                     *)
(***************************************************************************)

\* The sources of the soft-exit flag and the log level.  A source is "undef",
\* "false" or "true"; the environment holds strings, and the application
\* config may fail to load with a tolerated or with another error.
ContextSoftExit == {"undef", "false", "true"}
EnvSoftExit == {"undef", "false", "true"}
AppSoftExit == {"undef", "false", "true", "throwTolerated", "throwOther"}

ExitConfigs ==
    [read : {TRUE}, context : ContextSoftExit, env : EnvSoftExit,
     app : AppSoftExit, isError : BOOLEAN]

ExitConfigUnread ==
    [read |-> FALSE, context |-> "undef", env |-> "undef", app |-> "undef",
     isError |-> FALSE]

\* cmdContext.softExit || process.env.SOFT_EXIT || new Config().getAppConfig()
\* .softExit: "throw" when the config is consulted and fails with an error
\* that _exit rethrows; a tolerated error leaves softExit undefined.
softExitOf(cfg) ==
    IF cfg.context = "true" THEN "true"
    ELSE IF cfg.env # "undef" THEN cfg.env
    ELSE IF cfg.app = "throwOther" THEN "throw"
    ELSE IF cfg.app = "throwTolerated" THEN "undef"
    ELSE cfg.app

\* An exit step that sets no timer when the log level is not error.
exitOutcomeNoTimer(cfg) ==
    IF softExitOf(cfg) = "throw" THEN "throw"
    ELSE IF softExitOf(cfg) = "undef" /\ cfg.isError THEN "hardNow"
    ELSE "soft"

\* What _exit does: "throw", "soft" (returns), "hardNow" (process.exit) or
\* "hardLater" (process.exit from a timer).
exitOutcome(cfg) ==
    LET softExit == softExitOf(cfg)
    IN  IF softExit = "throw" THEN "throw"
        ELSE IF softExit = "undef"
        THEN IF cfg.isError THEN "hardNow" ELSE "hardLater"
        ELSE "soft"

(***************************************************************************)
(* lib/utils.js: _startSpinner and _stopSpinner                            *)
(***************************************************************************)

\* context.spinner (handle, and whether it is spinning), the spinner timers
\* that run, and the Spinner objects created so far.
NoSpinner == [handle |-> FALSE, spinning |-> FALSE, timers |-> 0, created |-> 0]

startSpinner(sp0, showProgress, envShow, json) ==
    IF showProgress /\ envShow /\ ~json
    THEN [handle |-> TRUE, spinning |-> TRUE, timers |-> sp0.timers + 1,
          created |-> sp0.created + 1]
    ELSE sp0

\* A stop that leaves context.spinner in place.
stopSpinnerKeepsHandle(sp0) ==
    IF sp0.handle /\ sp0.spinning
    THEN [sp0 EXCEPT !.spinning = FALSE, !.timers = @ - 1]
    ELSE sp0

stopSpinner(sp0) ==
    IF sp0.handle /\ sp0.spinning
    THEN [sp0 EXCEPT !.handle = FALSE, !.spinning = FALSE, !.timers = @ - 1]
    ELSE sp0

(***************************************************************************)
(* State                                                                   *)
(***************************************************************************)

VARIABLES
    cmd,            \* the Command: its kind and whether it has validate
    ctx,            \* the Context: json flag and org
    pc,             \* the stage of _execCommand's promise chain
    chain,          \* the chain's settlement so far: [ok, val] or [ok, err]
    exitCode,       \* process.exitCode
    override,       \* the exit code the command last set, Undef if none
    trace,          \* the reporter, telemetry and exit calls, in call order
    reports,        \* what the reporters emitted, in order
    exitStatus,     \* the code the process terminated with, Undef while alive
    exitTimer,      \* the setTimeout of a delayed hard exit is pending
    exitCfg,        \* the soft-exit sources and log level, once _exit read them
    spinner,        \* context.spinner and the running spinner timers
    usage,          \* sfdx-usage.json: startTime, 0 when absent
    analytics,      \* the executions the analytics command would report
    sink,           \* the usage records submitted to the server
    now,            \* the clock
    ops,            \* the operations of the last _logCommandComplete, in order
    manifestExists, \* whether the dataplan path exists
    planFile,       \* the manifest on disk
    fs,             \* the data files on disk: path -> records
    pending,        \* the fs.writeFile calls issued and not yet completed
    origPlan,       \* the plan as require(filepath) loaded it
    planRef,        \* per plan entry, the array p.files refers to, 0: as loaded
    arrays,         \* the arrays temparray has referred to
    temparray,      \* the module-level temparray: an index into arrays
    sp              \* the position of _splitFiles in the plan

invVars == << cmd, ctx, pc, chain, exitCode, override, trace, reports, exitStatus,
              exitTimer, exitCfg, spinner >>
telVars == << usage, analytics, sink, now, ops >>
diskVars == << manifestExists, planFile, fs, pending >>
splitVars == << origPlan, planRef, arrays, temparray, sp >>
vars == << invVars, telVars, diskVars, splitVars >>

Resolved(v) == [ok |-> TRUE, val |-> v, err |-> Err("", "")]
Rejected(e) == [ok |-> FALSE, val |-> "", err |-> e]

Alive == exitStatus = Undef

(***************************************************************************)
(* lib/data/dataApi.js: _splitFiles, step by step.  The function is        *)
(* synchronous: no completion of a write runs between its steps.           *)
(***************************************************************************)

\* The plan object in memory: an entry whose files were assigned shares the
\* array it was assigned, and shows every later push to that array.
PlanValue(ref, arrs) ==
    [e \in 1..Len(origPlan) |->
        [files |-> IF ref[e] = 0 THEN origPlan[e].files ELSE arrs[ref[e]]]]

PlanWrite(plan) ==
    [isPlan |-> TRUE, name |-> Path("", <<"plan", "json">>),
     records |-> <<>>, plan |-> plan]

\* _splitFiles up to require(filepath): throws when the path does not exist.
SplitFilesStart ==
    /\ Alive /\ pc = "execute" /\ chain.ok /\ cmd.kind = "split"
    /\ sp.phase = "idle"
    /\ IF ~manifestExists
       THEN /\ chain' = Rejected(PluginError(
                            GetMessage("dataSplitFileNotFound", "data_split").text))
            /\ pc' = "catch"
            /\ trace' = Append(trace, "executeRejected")
            /\ UNCHANGED splitVars
       ELSE /\ origPlan' = planFile
            /\ planRef' = [e \in 1..Len(planFile) |-> 0]
            /\ sp' = [phase |-> "running", e |-> 1, k |-> 1]
            /\ UNCHANGED << chain, pc, trace, arrays, temparray >>
    /\ UNCHANGED << cmd, ctx, exitCode, override, reports, exitStatus, exitTimer,
                    exitCfg, spinner, telVars, diskVars >>

\* _breakupDataFile(datafolder, f) with records the content of f: the arrays
\* and temparray after the call and the writes it issued.
BreakupKeepsFile(arrs, t, f) ==
    [arrays |-> [arrs EXCEPT ![t] = Append(@, f)], temparray |-> t,
     writes |-> <<>>]

BreakupChunksFile(arrs, t, f, records) ==
    LET ws == ChunkWrites(f, records, 0)
    IN  [arrays |-> Append(arrs, WriteNames(ws)), temparray |-> Len(arrs) + 1,
         writes |-> ws]

breakupDataFile(arrs, t, f, records) ==
    IF Len(records) <= SplitThreshold
    THEN BreakupKeepsFile(arrs, t, f)
    ELSE BreakupChunksFile(arrs, t, f, records)

CurrentFile == origPlan[sp.e].files[sp.k]

\* One iteration of the inner forEach: _breakupDataFile on the next file.
BreakupDataFile ==
    /\ Alive /\ sp.phase = "running"
    /\ sp.e <= Len(origPlan) /\ sp.k <= Len(origPlan[sp.e].files)
    /\ LET r == breakupDataFile(arrays, temparray, CurrentFile, fs[CurrentFile])
       IN  /\ arrays' = r.arrays
           /\ temparray' = r.temparray
           /\ pending' = pending \o r.writes
    /\ sp' = [sp EXCEPT !.k = @ + 1]
    /\ UNCHANGED << invVars, telVars, manifestExists, planFile, fs, origPlan,
                    planRef >>

\* The end of the outer forEach body: p.files = temparray, and the manifest
\* is written with the plan as it is now.
planRefAfterEntry(ref, e, t) == [ref EXCEPT ![e] = t]

FinishPlanEntry ==
    /\ Alive /\ sp.phase = "running"
    /\ sp.e <= Len(origPlan) /\ sp.k > Len(origPlan[sp.e].files)
    /\ planRef' = planRefAfterEntry(planRef, sp.e, temparray)
    /\ pending' = Append(pending, PlanWrite(PlanValue(planRef', arrays)))
    /\ sp' = [sp EXCEPT !.e = @ + 1, !.k = 1]
    /\ UNCHANGED << invVars, telVars, manifestExists, planFile, fs, origPlan,
                    arrays, temparray >>

\* _splitFiles returns, Data.split resolves and the command's execute
\* resolves with true.
SplitFilesReturn ==
    /\ Alive /\ sp.phase = "running" /\ sp.e > Len(origPlan)
    /\ sp' = [sp EXCEPT !.phase = "done"]
    /\ chain' = Resolved("true")
    /\ pc' = "success"
    /\ trace' = Append(trace, "executeResolved")
    /\ UNCHANGED << cmd, ctx, exitCode, override, reports, exitStatus, exitTimer,
                    exitCfg, spinner, telVars, diskVars, origPlan, planRef,
                    arrays, temparray >>

\* fs.writeFile completes.  Writes complete in any order; writes to different
\* paths commute, so the model completes the pending writes of the path that
\* was written first before those of the next path, in every order among the
\* writes of one path.
SameTarget(w1, w2) == w1.isPlan = w2.isPlan /\ w1.name = w2.name

RemoveAt(s, j) == SubSeq(s, 1, j - 1) \o SubSeq(s, j + 1, Len(s))

WriteComplete ==
    /\ Alive /\ sp.phase # "running" /\ pending # <<>>
    /\ \E j \in 1..Len(pending) :
          /\ SameTarget(pending[j], pending[1])
          /\ IF pending[j].isPlan
             THEN planFile' = pending[j].plan /\ fs' = fs
             ELSE /\ fs' = (pending[j].name :> pending[j].records) @@ fs
                  /\ planFile' = planFile
          /\ pending' = RemoveAt(pending, j)
    /\ UNCHANGED << invVars, telVars, manifestExists, splitVars >>

(***************************************************************************)
(* lib/utils.js: _execCommand, one action per handler of its promise chain *)
(***************************************************************************)

\* The synchronous head of _execCommand: process.exitCode is reset.
Invoke ==
    /\ Alive /\ pc = "idle"
    /\ exitCode' = Undef
    /\ pc' = "validate"
    /\ UNCHANGED << cmd, ctx, chain, override, trace, reports, exitStatus, exitTimer,
                    exitCfg, spinner, telVars, diskVars, splitVars >>

\* command.validate(context) when the command has one, which may set
\* process.exitCode and may throw or reject.
Validate ==
    /\ Alive /\ pc = "validate"
    /\ IF cmd.hasValidate
       THEN \E code \in {Undef} \cup ExitCodeOverrides,
               outcome \in {Resolved("context"), Rejected(ErrValidation),
                            Rejected(ErrSession)} :
               /\ exitCode' = IF code = Undef THEN exitCode ELSE code
               /\ override' = IF code = Undef THEN override ELSE code
               /\ chain' = outcome
               /\ IF outcome.ok
                  THEN pc' = "orgWait" /\ trace' = trace
                  ELSE pc' = "catch" /\ trace' = Append(trace, "validateFailed")
       ELSE /\ chain' = Resolved("context") /\ pc' = "orgWait"
            /\ UNCHANGED << exitCode, override, trace >>
    /\ UNCHANGED << cmd, ctx, reports, exitStatus, exitTimer, exitCfg,
                    spinner, telVars, diskVars, splitVars >>

\* The org-config wait and the pre-execute message: context.org.getConfig()
\* is awaited only for a workspace command whose org is a function, outside
\* json mode, and may reject.
OrgConfigWait ==
    /\ Alive /\ pc = "orgWait"
    /\ \E requiresWorkspace \in BOOLEAN, resolves \in BOOLEAN :
          IF requiresWorkspace /\ ctx.org = "function" /\ ~ctx.json /\ ~resolves
          THEN chain' = Rejected(ErrOrgConfig) /\ pc' = "catch"
          ELSE chain' = chain /\ pc' = "spinner"
    /\ UNCHANGED << cmd, ctx, exitCode, override, trace, reports, exitStatus, exitTimer,
                    exitCfg, spinner, telVars, diskVars, splitVars >>

StartSpinner ==
    /\ Alive /\ pc = "spinner"
    /\ \E showProgress \in BOOLEAN, envShow \in BOOLEAN :
          spinner' = startSpinner(spinner, showProgress, envShow, ctx.json)
    /\ pc' = "execute"
    /\ UNCHANGED << cmd, ctx, chain, exitCode, override, trace, reports, exitStatus,
                    exitTimer, exitCfg, telVars, diskVars, splitVars >>

\* command.execute of a command other than the splitter: it may set
\* process.exitCode, and resolves with a result or rejects.
Execute ==
    /\ Alive /\ pc = "execute" /\ cmd.kind = "generic"
    /\ \E code \in {Undef} \cup ExitCodeOverrides :
          /\ exitCode' = IF code = Undef THEN exitCode ELSE code
          /\ override' = IF code = Undef THEN override ELSE code
    /\ \/ \E obj \in ResultValues :
             /\ chain' = Resolved(obj) /\ pc' = "success"
             /\ trace' = Append(trace, "executeResolved")
       \/ \E e \in {ErrExecute, ErrSession} :
             /\ chain' = Rejected(e) /\ pc' = "catch"
             /\ trace' = Append(trace, "executeRejected")
    /\ UNCHANGED << cmd, ctx, reports, exitStatus, exitTimer, exitCfg,
                    spinner, telVars, diskVars, splitVars >>

\* The handler of the success branch up to its call of _logCommandComplete.
SuccessHandler ==
    /\ Alive /\ pc = "success"
    /\ spinner' = stopSpinner(spinner)
    /\ LET r == logSuccess(ctx.json, exitCode, chain.val)
       IN  IF r.thrown
           THEN /\ trace' = Append(trace, "logSuccess")
                /\ reports' = reports
                /\ chain' = Rejected(r.err)
                /\ pc' = "catch"
           ELSE /\ trace' = trace \o << "logSuccess", "telemetryStart" >>
                /\ reports' = Append(reports, r.report)
                /\ chain' = chain
                /\ pc' = "successTelemetry"
    /\ UNCHANGED << cmd, ctx, exitCode, override, exitStatus, exitTimer, exitCfg,
                    telVars, diskVars, splitVars >>

\* The handler of the failure branch up to its call of _logCommandComplete.
CatchHandler ==
    /\ Alive /\ pc = "catch"
    /\ spinner' = stopSpinner(spinner)
    /\ LET r == logError(ctx.json, ctx.org, exitCode, chain.err)
       IN  IF r.thrown
           THEN /\ trace' = Append(trace, "logError")
                /\ reports' = reports
                /\ chain' = Rejected(r.err)
                /\ pc' = "finally"
           ELSE /\ trace' = trace \o << "logError", "telemetryStart" >>
                /\ reports' = Append(reports, r.report)
                /\ chain' = chain
                /\ pc' = "failTelemetry"
    /\ UNCHANGED << cmd, ctx, exitCode, override, exitStatus, exitTimer, exitCfg,
                    telVars, diskVars, splitVars >>

\* The promise of _logCommandComplete settles, on either branch; a rejection
\* of it would reject the branch's handler.
TelemetryComplete ==
    /\ Alive /\ pc \in {"successTelemetry", "failTelemetry"}
    /\ \E fail \in TelemetryFailures :
          LET t == logCommandComplete(usage, analytics, sink, now, fail)
              failed == ~usageChain(usage, analytics, sink, now, fail).ok
          IN  /\ trace' = trace \o (IF failed THEN << "telemetryFailed" >> ELSE <<>>)
                             \o << "telemetryDone" >>
              /\ usage' = t.usage
              /\ analytics' = t.analytics
              /\ sink' = t.sink
              /\ ops' = t.ops
              /\ IF t.ok
                 THEN /\ chain' = chain
                      /\ pc' = IF pc = "successTelemetry" THEN "exit"
                               ELSE "serverError"
                 ELSE /\ chain' = Rejected(ErrTelemetry)
                      /\ pc' = IF pc = "successTelemetry" THEN "catch"
                               ELSE "failExit"
    /\ UNCHANGED << cmd, ctx, exitCode, override, reports, exitStatus, exitTimer, exitCfg,
                    spinner, now, diskVars, splitVars >>

\* _exit(context) with the pending exit code: the first call reads the
\* soft-exit sources and the log level.
ExitEffect(cfg, thenPc) ==
    /\ exitCfg' = cfg
    /\ trace' = Append(trace, "exit")
    /\ LET outcome == exitOutcome(cfg)
       IN  /\ chain' = IF outcome = "throw" THEN Rejected(ErrConfig) ELSE chain
           /\ pc' = IF outcome = "hardNow" THEN "exited"
                    ELSE IF outcome = "throw" THEN thenPc.thrown
                    ELSE thenPc.returned
           /\ exitStatus' = IF outcome = "hardNow" THEN ExitStatusOf(exitCode')
                            ELSE exitStatus
           /\ exitTimer' = IF outcome = "hardLater" THEN TRUE ELSE exitTimer

\* The second handler of the success branch: _exit(context), then obj.
ExitStep ==
    /\ Alive /\ pc = "exit"
    /\ exitCode' = exitCode
    /\ \E cfg \in ExitConfigs :
          /\ exitCfg.read => cfg = exitCfg
          /\ ExitEffect(cfg, [thrown |-> "catch", returned |-> "finally"])
    /\ UNCHANGED << cmd, ctx, override, reports, spinner, telVars, diskVars, splitVars >>

\* logger.logServerError on the failure branch, which may reject.
LogServerError ==
    /\ Alive /\ pc = "serverError"
    /\ \E resolves \in BOOLEAN :
          chain' = IF resolves THEN Resolved("undefined") ELSE Rejected(ErrServer)
    /\ pc' = "failExit"
    /\ UNCHANGED << cmd, ctx, exitCode, override, trace, reports, exitStatus, exitTimer,
                    exitCfg, spinner, telVars, diskVars, splitVars >>

\* The finally of the failure branch: process.exitCode = 1, then _exit.
failureExitCode(code) == 1

ExitAfterFailure ==
    /\ Alive /\ pc = "failExit"
    /\ exitCode' = failureExitCode(exitCode)
    /\ \E cfg \in ExitConfigs :
          /\ exitCfg.read => cfg = exitCfg
          /\ ExitEffect(cfg, [thrown |-> "finally", returned |-> "finally"])
    /\ UNCHANGED << cmd, ctx, override, reports, spinner, telVars, diskVars, splitVars >>

\* The last finally: the spinner is stopped and the promise settles.
Finally ==
    /\ Alive /\ pc = "finally"
    /\ spinner' = stopSpinner(spinner)
    /\ pc' = "settled"
    /\ UNCHANGED << cmd, ctx, chain, exitCode, override, trace, reports, exitStatus,
                    exitTimer, exitCfg, telVars, diskVars, splitVars >>

\* The timer of a delayed hard exit fires: process.exit(process.exitCode).
\* The rest of the chain runs without waiting, so the timer fires after it.
ExitTimerFires ==
    /\ Alive /\ exitTimer /\ pc = "settled"
    /\ exitStatus' = ExitStatusOf(exitCode)
    /\ exitTimer' = FALSE
    /\ pc' = "exited"
    /\ UNCHANGED << cmd, ctx, chain, exitCode, override, trace, reports, exitCfg, spinner,
                    telVars, diskVars, splitVars >>

(***************************************************************************)
(* lib/utils.js: _logCommandComplete over the completions of several       *)
(* commands, with the executions that the analytics command collects       *)
(* between them and the clock.                                             *)
(***************************************************************************)

\* Bounds: the executions collected in all, the half days the clock
\* advances, and the submissions to the server.
MaxFeed == 3
MaxTicks == 2
MaxSubmits == 1

HalfDay == dayInMilliseconds \div 2

\* The entries of JSON.parse(analyticsCmd.stdout).commands: a command in two
\* versions and another command, quick and slow, succeeding and failing.
Executions ==
    { Execution("force:org:list", "5.7.6", "", 1, 0),
      Execution("force:org:list", "5.7.6", "", 4, 1),
      Execution("force:org:list", "5.7.6", "0.0.1", 4, 0),
      Execution("djc:data:split", "5.7.6", "0.0.1", 1, 1) }

RECURSIVE TotalExecutions(_)
TotalExecutions(usages) ==
    IF usages = <<>> THEN 0
    ELSE Head(usages).totalExecutions + TotalExecutions(Tail(usages))

RECURSIVE SubmittedExecutions(_)
SubmittedExecutions(sk) ==
    IF sk = <<>> THEN 0
    ELSE TotalExecutions(Head(sk)) + SubmittedExecutions(Tail(sk))

\* A command ran and the analytics command recorded its execution.
RecordExecution ==
    /\ Alive /\ pc = "idle"
    /\ Len(analytics) + SubmittedExecutions(sink) < MaxFeed
    /\ \E c \in Executions : analytics' = Append(analytics, c)
    /\ UNCHANGED << invVars, usage, sink, now, ops, diskVars, splitVars >>

\* new Date() is later at the next completion.
ClockAdvances ==
    /\ Alive /\ pc = "idle"
    /\ now < Now0 + MaxTicks * HalfDay
    /\ now' = now + HalfDay
    /\ UNCHANGED << invVars, usage, analytics, sink, ops, diskVars, splitVars >>

\* _logCommandComplete at the completion of a command.
CommandCompletes ==
    /\ Alive /\ pc = "idle"
    /\ Len(sink) < MaxSubmits
    /\ \E fail \in TelemetryFailures :
          LET t == logCommandComplete(usage, analytics, sink, now, fail)
          IN  /\ usage' = t.usage
              /\ analytics' = t.analytics
              /\ sink' = t.sink
              /\ ops' = t.ops
    /\ UNCHANGED << invVars, now, diskVars, splitVars >>

(***************************************************************************)
(* lib/utils.js: _startSpinner and _stopSpinner called on one context in   *)
(* any order, as by invocations that share the context.                    *)
(***************************************************************************)

\* Bound: the calls of the two functions.
MaxCalls == 6

CallStartSpinner ==
    /\ Alive /\ pc = "idle" /\ Len(trace) < MaxCalls
    /\ \E showProgress \in BOOLEAN, envShow \in BOOLEAN :
          spinner' = startSpinner(spinner, showProgress, envShow, ctx.json)
    /\ trace' = Append(trace, "startSpinner")
    /\ UNCHANGED << cmd, ctx, pc, chain, exitCode, override, reports, exitStatus,
                    exitTimer, exitCfg, telVars, diskVars, splitVars >>

CallStopSpinner ==
    /\ Alive /\ pc = "idle" /\ Len(trace) < MaxCalls
    /\ spinner' = stopSpinner(spinner)
    /\ trace' = Append(trace, "stopSpinner")
    /\ UNCHANGED << cmd, ctx, pc, chain, exitCode, override, reports, exitStatus,
                    exitTimer, exitCfg, telVars, diskVars, splitVars >>

(***************************************************************************)
(* lib/utils.js: _logError called on errors of every shape.                *)
(***************************************************************************)

\* Bound: the errors reported.
MaxReports == 2

\* The errors a command can fail with: any name and message, with or without
\* an action, rows and columns.
ErrorShapes ==
    { ErrWith("Error", m, a, r, c) :
        m \in {"Command failed", "Session expired or invalid"},
        a \in BOOLEAN, r \in BOOLEAN, c \in BOOLEAN }

CallLogError ==
    /\ Alive /\ pc = "idle" /\ Len(trace) < MaxReports
    /\ \E err \in ErrorShapes :
          LET r == logError(ctx.json, ctx.org, exitCode, err)
          IN  /\ chain' = Rejected(err)
              /\ trace' = Append(trace, "logError")
              /\ reports' = IF r.thrown THEN reports ELSE Append(reports, r.report)
    /\ UNCHANGED << cmd, ctx, pc, exitCode, override, exitStatus, exitTimer,
                    exitCfg, spinner, telVars, diskVars, splitVars >>

(***************************************************************************)
(* Specifications                                                          *)
(***************************************************************************)

Commands ==
    [kind : {"generic"}, hasValidate : BOOLEAN]
        \cup [kind : {"split"}, hasValidate : {FALSE}]

Contexts == [json : BOOLEAN, org : {"none", "token", "function"}]

DiskOf(sizes) == [f \in FileNames |-> RecordsOf(FileId(f), sizes[f])]

InvocationInit ==
    /\ chain = Resolved("undefined")
    /\ override = Undef
    /\ trace = <<>>
    /\ reports = <<>>
    /\ exitStatus = Undef
    /\ exitTimer = FALSE
    /\ exitCfg = ExitConfigUnread
    /\ spinner = NoSpinner
    /\ pending = <<>>
    /\ origPlan = <<>>
    /\ planRef = <<>>
    /\ arrays = << <<>> >>
    /\ temparray = 1
    /\ sp = [phase |-> "idle", e |-> 1, k |-> 1]

TelemetryInit ==
    /\ now = Now0
    /\ usage \in { [startTime |-> t] :
                     t \in {0, Midnight0, Midnight0 - dayInMilliseconds} }
    /\ analytics = SampleFeed
    /\ sink = <<>>
    /\ ops = <<>>

\* The manifests the invoker is run on: one small file, one oversized file.
InvokerManifests ==
    { << [files |-> << FileA >>] >>, << [files |-> << FileB >>] >> }

\* An invocation of executeCommand, of any command or of the splitter.
Init ==
    /\ InvocationInit
    /\ TelemetryInit
    /\ pc = "idle"
    /\ exitCode \in {Undef, 1}
    /\ cmd \in Commands
    /\ ctx \in Contexts
    /\ fs = DiskOf(CHOOSE d \in DiskSizes : d[FileA] = 150)
    /\ IF cmd.kind = "split"
       THEN \/ manifestExists = FALSE /\ planFile = <<>>
            \/ manifestExists = TRUE /\ planFile \in InvokerManifests
       ELSE manifestExists = FALSE /\ planFile = <<>>

Next ==
    \/ Invoke \/ Validate \/ OrgConfigWait \/ StartSpinner \/ Execute
    \/ SplitFilesStart \/ BreakupDataFile \/ FinishPlanEntry \/ SplitFilesReturn
    \/ SuccessHandler \/ CatchHandler \/ TelemetryComplete \/ ExitStep
    \/ LogServerError \/ ExitAfterFailure \/ Finally \/ ExitTimerFires
    \/ WriteComplete

Spec == Init /\ [][Next]_vars

\* The invocation under the event loop: a handler whose promise has settled
\* runs, and a timer that is due fires.  The handlers that wait for the
\* command, the org, the telemetry flow or the server may wait forever.
LiveSpec == Spec /\ WF_vars(Finally) /\ WF_vars(ExitTimerFires)

\* The splitter alone: Data.split on every manifest within the bounds.
SplitInit ==
    /\ InvocationInit
    /\ now = Now0 /\ usage = [startTime |-> 0] /\ analytics = <<>> /\ sink = <<>>
    /\ ops = <<>>
    /\ pc = "execute"
    /\ exitCode = Undef
    /\ cmd = [kind |-> "split", hasValidate |-> FALSE]
    /\ ctx = [json |-> FALSE, org |-> "none"]
    /\ \E d \in DiskSizes : fs = DiskOf(d)
    /\ manifestExists \in BOOLEAN
    /\ planFile \in Manifests

SplitNext ==
    \/ SplitFilesStart \/ BreakupDataFile \/ FinishPlanEntry \/ SplitFilesReturn
    \/ WriteComplete

SplitSpec == SplitInit /\ [][SplitNext]_vars

\* The splitter on manifests that reference files in a subfolder and files
\* named like a chunk.
NamedSplitInit ==
    /\ InvocationInit
    /\ now = Now0 /\ usage = [startTime |-> 0] /\ analytics = <<>> /\ sink = <<>>
    /\ ops = <<>>
    /\ pc = "execute"
    /\ exitCode = Undef
    /\ cmd = [kind |-> "split", hasValidate |-> FALSE]
    /\ ctx = [json |-> FALSE, org |-> "none"]
    /\ fs = [f \in NamedFiles |-> RecordsOf(FileId(f), NamedDiskSizes[f])]
    /\ manifestExists \in BOOLEAN
    /\ planFile \in NamedManifests

NamedSplitSpec == NamedSplitInit /\ [][SplitNext]_vars

\* The telemetry step over the completions of several commands.
UsageInit ==
    /\ InvocationInit
    /\ pc = "idle"
    /\ exitCode = Undef
    /\ cmd = [kind |-> "generic", hasValidate |-> FALSE]
    /\ ctx = [json |-> FALSE, org |-> "none"]
    /\ fs = DiskOf(CHOOSE d \in DiskSizes : d[FileA] = 150)
    /\ manifestExists = FALSE /\ planFile = <<>>
    /\ now = Now0
    /\ usage \in { [startTime |-> t] :
                     t \in {0, Midnight0, Midnight0 - dayInMilliseconds} }
    /\ analytics = <<>>
    /\ sink = <<>>
    /\ ops = <<>>

UsageNext == RecordExecution \/ ClockAdvances \/ CommandCompletes

UsageSpec == UsageInit /\ [][UsageNext]_vars

\* The progress indicator of one context under any calls.
SpinnerInit ==
    /\ InvocationInit
    /\ pc = "idle"
    /\ exitCode = Undef
    /\ cmd = [kind |-> "generic", hasValidate |-> FALSE]
    /\ ctx \in [json : BOOLEAN, org : {"none"}]
    /\ fs = DiskOf(CHOOSE d \in DiskSizes : d[FileA] = 150)
    /\ manifestExists = FALSE /\ planFile = <<>>
    /\ now = Now0 /\ usage = [startTime |-> 0] /\ analytics = <<>> /\ sink = <<>>
    /\ ops = <<>>

SpinnerNext == CallStartSpinner \/ CallStopSpinner

SpinnerSpec == SpinnerInit /\ [][SpinnerNext]_vars

\* The error reporter on errors of every shape.
ReportInit ==
    /\ InvocationInit
    /\ pc = "idle"
    /\ exitCode \in {Undef, 2}
    /\ cmd = [kind |-> "generic", hasValidate |-> FALSE]
    /\ ctx \in Contexts
    /\ fs = DiskOf(CHOOSE d \in DiskSizes : d[FileA] = 150)
    /\ manifestExists = FALSE /\ planFile = <<>>
    /\ now = Now0 /\ usage = [startTime |-> 0] /\ analytics = <<>> /\ sink = <<>>
    /\ ops = <<>>

ReportNext == CallLogError

ReportSpec == ReportInit /\ [][ReportNext]_vars

(***************************************************************************)
(* Properties                                                              *)
(***************************************************************************)

Called(e) == CountOf(trace, e) > 0

\* The invocation is over: its promise settled or the process was exited.
Finished == pc \in {"settled", "exited"}

\* C1: in every invocation of executeCommand, whatever path is taken, _exit
\* is invoked exactly once: never twice, and once by the time the invocation
\* is over.
ExitInvokedExactlyOnce ==
    /\ CountOf(trace, "exit") <= 1
    /\ Finished => CountOf(trace, "exit") = 1

\* C2: in every invocation exactly one outcome is reported: _logSuccess runs
\* once or _logError runs once, never both and never _logError twice.
ExactlyOneReporterRuns ==
    /\ ~(Called("logSuccess") /\ Called("logError"))
    /\ CountOf(trace, "logSuccess") <= 1 /\ CountOf(trace, "logError") <= 1
    /\ Finished => CountOf(trace, "logSuccess") + CountOf(trace, "logError") = 1

\* The telemetry and exit calls of the trace, in order.
RECURSIVE FlushAndExitCalls(_)
FlushAndExitCalls(t) ==
    IF t = <<>> THEN <<>>
    ELSE (IF Head(t) \in {"telemetryStart", "telemetryDone", "exit"}
          THEN << Head(t) >> ELSE <<>>) \o FlushAndExitCalls(Tail(t))

\* C3: on the success branch and on the failure branch, _logCommandComplete
\* runs exactly once and completes before _exit is invoked, _exit is invoked
\* exactly once after it, and the two branches are never both taken.
OneFlushThenOneExit ==
    /\ Finished =>
          FlushAndExitCalls(trace) = << "telemetryStart", "telemetryDone", "exit" >>
    /\ ~(Called("logSuccess") /\ Called("logError"))

\* C4: with no exit-code override set, a hard exit terminates the process
\* with exit code 0 when execute resolved, and with exit code 1 when validate
\* or execute failed.
HardExitCodeFollowsOutcome ==
    (exitStatus # Undef /\ override = Undef) =>
        /\ Called("executeResolved") => exitStatus = 0
        /\ (Called("validateFailed") \/ Called("executeRejected")) => exitStatus = 1

\* C5: if the command sets process.exitCode during validate or execute, the
\* process terminates with that value on the success path and on the failure
\* path alike, and the status field of the reported result or error equals
\* the code the process terminates with.
OverrideIsExitCodeAndStatus ==
    (exitStatus # Undef /\ override # Undef) =>
        /\ exitStatus = override
        /\ \A j \in 1..Len(reports) :
              reports[j].status # Undef => reports[j].status = exitStatus

\* C6: a failure at any step of the telemetry flow never changes which
\* outcome is reported, never causes an error to be reported to the user and
\* never changes the exit code: the invocation continues to the exit step as
\* if telemetry had succeeded.
TelemetrySettles == pc \in {"successTelemetry", "failTelemetry"} /\ pc' # pc

TelemetryFailureIsSwallowed ==
    /\ [][ TelemetrySettles =>
              /\ chain' = chain /\ reports' = reports
              /\ exitCode' = exitCode /\ exitStatus' = exitStatus
              /\ pc' = IF pc = "successTelemetry" THEN "exit" ELSE "serverError"
         ]_vars
    /\ [](/\ chain.err # ErrTelemetry
          /\ \A j \in 1..Len(reports) : reports[j].message # ErrTelemetry.message
          /\ pc = "exit" => chain.ok /\ ~Called("logError")
          /\ (Called("telemetryFailed") /\ Finished /\ ~Called("exit")) =>
                 (~chain.ok /\ chain.err # ErrTelemetry)
          /\ exitStatus # Undef =>
                 exitStatus = IF Called("logError") THEN 1
                              ELSE ExitStatusOf(override))

\* C6 witness: a step of the telemetry flow failed and the process then
\* exited, on the success branch with the success exit code.
TelemetryFailureThenExit ==
    /\ Called("telemetryFailed") /\ Called("logSuccess") /\ ~Called("logError")
    /\ exitStatus = 0

\* The step of _breakupDataFile that has just been taken, if any: the file it
\* was called on and the writes it issued.
BreakupStep == sp.phase = "running" /\ sp'.phase = "running" /\ sp'.k = sp.k + 1

IssuedWrites == SubSeq(pending', Len(pending) + 1, Len(pending'))

\* C7: for a data file with N records, N > 200 produces exactly ceil(N/200)
\* chunks, each but possibly the last of exactly 200 records, whose
\* concatenation in order is the original record sequence; N <= 200 produces
\* no chunk and the file is listed under its original name.
ChunksOfOneFile ==
    [][ BreakupStep =>
          LET f == CurrentFile
              records == fs[f]
              N == Len(records)
              ws == IssuedWrites
              listed == arrays'[temparray']
          IN  IF N > 200
              THEN /\ Len(ws) = CeilDiv(N, 200)
                   /\ \A j \in 1..(Len(ws) - 1) : Len(ws[j].records) = 200
                   /\ Len(Last(ws).records) \in 1..200
                   /\ ConcatRecords(ws) = records
                   /\ listed = WriteNames(ws)
                   /\ \A i, j \in 1..Len(ws) : ws[i].name = ws[j].name => i = j
              ELSE /\ ws = <<>>
                   /\ listed # <<>> /\ Last(listed) = f
                   /\ fs' = fs
      ]_vars

\* C7 witness: a file of 401 records was broken up into three chunks, and a
\* file of 200 records was kept.
JustProcessed == origPlan[sp.e].files[sp.k - 1]

OversizedFileChunked ==
    /\ sp.phase = "running" /\ sp.k > 1
    /\ Len(fs[JustProcessed]) = 401
    /\ Len(pending) >= 3
    /\ Len(Last(pending).records) = 1

\* The file list an entry of the plan should be rewritten to: per file, its
\* chunk names when it has more than 200 records, else its own name.
RECURSIVE ExpectedFiles(_)
ExpectedFiles(files) ==
    IF files = <<>> THEN <<>>
    ELSE (IF Len(fs[Head(files)]) > 200
          THEN [j \in 1..CeilDiv(Len(fs[Head(files)]), 200) |->
                   ChunkFileName(Head(files), (j - 1) * 200)]
          ELSE << Head(files) >>) \o ExpectedFiles(Tail(files))

SplitReturned == sp.phase = "done"

\* C8: after split, every plan entry's rewritten file list is exactly the
\* in-order concatenation, over that entry's original files, of the file's
\* chunk names or its original name.
EntriesListTheirArtifacts ==
    SplitReturned =>
        \A e \in 1..Len(origPlan) :
            PlanValue(planRef, arrays)[e].files = ExpectedFiles(origPlan[e].files)

AllFilesSmall ==
    \A e \in 1..Len(origPlan) : \A k \in 1..Len(origPlan[e].files) :
        Len(fs[origPlan[e].files[k]]) <= 200

\* C9: split on a manifest whose files all have at most 200 records leaves
\* every plan entry's file list and every data file unchanged and creates no
\* new file.
SmallFilesLeftAlone ==
    (SplitReturned /\ AllFilesSmall) =>
        /\ PlanValue(planRef, arrays) = origPlan
        /\ \A j \in 1..Len(pending) : pending[j].isPlan /\ pending[j].plan = origPlan
        /\ planFile = origPlan
        /\ DOMAIN fs = FileNames
        /\ \A f \in FileNames : fs[f] = RecordsOf(FileId(f), Len(fs[f]))

\* C10: when the manifest path does not exist, the invocation fails with the
\* error whose message is "Could not find specified file" and whose name is
\* the one mapped from dataSplitFileNotFound, the process exit code is 1,
\* nothing is written and no telemetry error is reported.
MissingManifestIsNotFoundError ==
    (cmd.kind = "split" /\ ~manifestExists /\ Called("executeRejected")
        /\ Finished) =>
        /\ Len(reports) = 1
        /\ reports[1].kind = "error"
        /\ reports[1].message = "Could not find specified file"
        /\ reports[1].name = PluginErrors("dataSplitFileNotFound")
        /\ exitCode = 1
        /\ exitStatus \in {Undef, 1}
        /\ pending = <<>> /\ DOMAIN fs = FileNames
        /\ chain.err # ErrTelemetry

\* A completion submitted the usages aggregated from the analytics feed.
UsagesSubmitted == Len(sink') = Len(sink) + 1

\* q is x / d rounded to the nearest integer, a half rounding up.
IsRounded(q, x, d) == 2 * d * q - d <= 2 * x /\ 2 * x < 2 * d * q + d

\* The record of the execution c's key in usages, or a record that has no
\* execution yet.
RecordOf(usages, c) ==
    IF KeyIndex(usages, commandKey(c)) = 0
    THEN [totalExecutions |-> 0, avgRuntime |-> 0]
    ELSE usages[KeyIndex(usages, commandKey(c))]

\* C11: when a usage record with n prior executions and running average
\* avgRuntime receives a new runtime sample, its new average is
\* round((runtime + avgRuntime * n) / (n + 1)) with n the count before its
\* increment, for the first sample as for later ones, and the count becomes
\* n + 1; the usages submitted are the result of these updates.
AverageUsesCountBeforeIncrement ==
    [][ UsagesSubmitted =>
          /\ Last(sink') = calcUsage(<<>>, analytics)
          /\ \A m \in 1..Len(analytics) :
                LET c == analytics[m]
                    before == RecordOf(calcUsage(<<>>, SubSeq(analytics, 1, m - 1)), c)
                    after == RecordOf(calcUsage(<<>>, SubSeq(analytics, 1, m)), c)
                    n == before.totalExecutions
                IN  /\ IsRounded(after.avgRuntime,
                                 c.runtime + before.avgRuntime * n, n + 1)
                    /\ after.totalExecutions = n + 1
                    /\ m = 1 => after.avgRuntime = c.runtime
      ]_vars

\* C11 witness: usages were submitted in which a record of two executions,
\* of runtimes 1 and 4, has the average 3.
TwoSamplesAveraged ==
    /\ sink # <<>>
    /\ \E j \in 1..Len(Last(sink)) :
          /\ Last(sink)[j].totalExecutions = 2
          /\ Last(sink)[j].minRuntime = 1 /\ Last(sink)[j].maxRuntime = 4
          /\ Last(sink)[j].avgRuntime = 3

\* t is the local midnight that starts the day of the instant at.
IsStartOfDayOf(t, at) ==
    /\ t % dayInMilliseconds = 0
    /\ t <= at /\ at < t + dayInMilliseconds

\* C12: across any sequence of completions, every value the telemetry step
\* writes to the persisted startTime, by first-time initialization or by a
\* day-rollover reset, is the local midnight of the day of the write, so a
\* startTime that is set is always aligned to a day boundary.
StartTimeIsDayBoundary ==
    /\ [][ usage'.startTime # usage.startTime =>
              IsStartOfDayOf(usage'.startTime, now) ]_vars
    /\ [](usage.startTime # 0 => usage.startTime % dayInMilliseconds = 0)

\* C12 witness: a day-rollover reset wrote startTime a day after the clock's
\* first value, at an instant that is not itself a midnight.
StartTimeResetOnRollover ==
    /\ now = Now0 + dayInMilliseconds
    /\ ops = << "load", "hubConfig", "analytics", "submit", "analytics:clear",
                "save" >>
    /\ usage.startTime = Midnight0 + dayInMilliseconds
    /\ usage.startTime # now

\* The soft-exit flag by precedence: the value of the first of the context,
\* the environment and the application config that defines one.
FlagByPrecedence(cfg) ==
    IF cfg.context # "undef" THEN cfg.context
    ELSE IF cfg.env # "undef" THEN cfg.env
    ELSE IF cfg.app = "throwTolerated" THEN "undef"
    ELSE cfg.app

\* The exit step hard-exited the process, at once or from its timer.
HardExited == exitTimer \/ exitStatus # Undef

\* C13: the exit step resolves the soft-exit flag with precedence context,
\* then environment, then application config, the first source that defines
\* a value deciding even when the value is false; the process is hard-exited
\* if and only if the resolved flag is undefined or false, and a soft exit
\* never terminates the process.
SoftExitResolvedByPrecedence ==
    (Called("exit") /\ exitCfg.read /\ exitCfg.app # "throwOther") =>
        /\ HardExited <=> FlagByPrecedence(exitCfg) \in {"undef", "false"}
        /\ FlagByPrecedence(exitCfg) = "true" => exitStatus = Undef

\* C14: the two progress-indicator operations are idempotent and safe when
\* the indicator was never started: stop without a running indicator changes
\* nothing, stop twice equals stop once, and start twice leaves exactly one
\* running indicator, which a single stop fully stops.
SpinnerCallsAreIdempotent ==
    /\ ~spinner.spinning => stopSpinner(spinner) = spinner
    /\ stopSpinner(stopSpinner(spinner)) = stopSpinner(spinner)
    /\ spinner.timers <= 1
    /\ (trace # <<>> /\ Last(trace) = "stopSpinner") => spinner.timers = 0

\* C15: when validate fails, the invocation goes directly to the failure
\* branch: the progress indicator is never started and execute is never
\* called, and the error is reported and the process exits with code 1.
ValidateFailureSkipsToFailure ==
    Called("validateFailed") =>
        /\ spinner = NoSpinner
        /\ ~Called("executeResolved") /\ ~Called("executeRejected")
        /\ ~Called("logSuccess")
        /\ Finished =>
              /\ Len(reports) = 1 /\ reports[1].kind = "error"
              /\ reports[1].name \in {ErrValidation.name, ErrSession.name}
              /\ exitCode = 1
              /\ exitStatus \in {Undef, 1}
              /\ exitStatus = Undef => (exitTimer \/ softExitOf(exitCfg) # "undef")

\* C16: when validate or execute fails, the promise that executeCommand
\* returned is rejected; when execute resolves with a value and no later step
\* throws, the promise resolves with that value.
FailureRejectsReturnedPromise ==
    pc = "settled" =>
        /\ (Called("validateFailed") \/ Called("executeRejected")) => ~chain.ok
        /\ (Called("executeResolved") /\ ~Called("logError")) =>
              /\ chain.ok
              /\ chain.val \in (IF cmd.kind = "split" THEN {"true"} ELSE ResultValues)

\* C17: during a day-rollover flush the analytics source is cleared and
\* startTime is advanced only if the aggregated usages were submitted and the
\* submission succeeded; when the feed cannot be read or parsed, or the
\* submission fails, the source is not cleared and startTime is unchanged.
ResetOnlyAfterSubmission ==
    [][ ( \/ (analytics # <<>> /\ analytics' = <<>>)
          \/ (usage.startTime # 0 /\ usage'.startTime # usage.startTime) )
        => UsagesSubmitted ]_vars

\* startTime is present and less than 24 hours have elapsed since it.
WithinDay == usage.startTime # 0 /\ now - usage.startTime < dayInMilliseconds

IsPrefix(s1, s2) == Len(s1) <= Len(s2) /\ SubSeq(s2, 1, Len(s1)) = s1

\* C18: the telemetry step reads the persisted state at every completion
\* and leaves it unchanged whenever startTime is present and less than 24
\* hours have elapsed: no write to the state, no read or clearing of the
\* analytics source and no submission; the state is written only when
\* startTime was absent or on a day rollover.
StateUntouchedWithinDay ==
    /\ [][ WithinDay =>
              /\ usage' = usage /\ sink' = sink
              /\ IsPrefix(analytics, analytics')
              /\ ops' # ops => ops' = << "load" >> ]_vars
    /\ [][ usage' # usage =>
              (usage.startTime = 0 \/ now - usage.startTime >= dayInMilliseconds)
         ]_vars
    /\ [](ops # <<>> => Head(ops) = "load")
    /\ [](WithinDay =>
            \A fail \in TelemetryFailures :
               LET t == logCommandComplete(usage, analytics, sink, now, fail)
               IN  /\ t.usage = usage /\ t.analytics = analytics
                   /\ t.sink = sink /\ t.ops = << "load" >>)

\* C18 witness: a command completed at 13:00 of the day of startTime, with
\* executions in the analytics source: the step only loaded the state.
CompletedWithinDay ==
    /\ WithinDay /\ usage.startTime = Midnight0 /\ now = Now0 + HalfDay
    /\ ops = << "load" >>
    /\ analytics # <<>> /\ sink = <<>>

\* The (commandName, version) pair of an execution, the version being the
\* toolbelt version followed by the plugin version when there is one.
PairOf(c) ==
    << c.command,
       IF c.plugin_version = "" THEN c.version
       ELSE c.version \o " " \o c.plugin_version >>

\* The positions in feed of the executions of the record u's pair.
ExecutionsOf(feed, u) ==
    { m \in 1..Len(feed) : PairOf(feed[m]) = << u.commandName, u.toolbeltVersion >> }

\* C19: for any sequence of executions read from the analytics feed, the
\* aggregation yields exactly one usage record per distinct (commandName,
\* version) pair; in each record totalExecutions is the number of executions
\* of the pair, totalErrors the number of those with a non-zero status,
\* minRuntime the smallest and maxRuntime the largest of their runtimes, so
\* totalErrors <= totalExecutions and minRuntime <= avgRuntime <= maxRuntime.
OneRecordPerCommandAndVersion ==
    [][ UsagesSubmitted =>
          LET us == Last(sink')
              pairs == { PairOf(analytics[m]) : m \in 1..Len(analytics) }
          IN  /\ { << us[j].commandName, us[j].toolbeltVersion >> :
                      j \in 1..Len(us) } = pairs
              /\ Len(us) = Cardinality(pairs)
              /\ \A j \in 1..Len(us) :
                    LET ms == ExecutionsOf(analytics, us[j])
                    IN  /\ us[j].totalExecutions = Cardinality(ms)
                        /\ us[j].totalErrors =
                              Cardinality({ m \in ms : analytics[m].status # 0 })
                        /\ \A m \in ms :
                              /\ us[j].minRuntime <= analytics[m].runtime
                              /\ analytics[m].runtime <= us[j].maxRuntime
                        /\ \E m \in ms : us[j].minRuntime = analytics[m].runtime
                        /\ \E m \in ms : us[j].maxRuntime = analytics[m].runtime
                        /\ us[j].totalErrors <= us[j].totalExecutions
                        /\ us[j].minRuntime <= us[j].avgRuntime
                        /\ us[j].avgRuntime <= us[j].maxRuntime
      ]_vars

\* C19 witness: the usages submitted hold two records, for one command name
\* in two versions, one of them aggregating a failed and a successful
\* execution.
TwoVersionsAggregated ==
    /\ sink # <<>> /\ Len(Last(sink)) = 2
    /\ Last(sink)[1].commandName = Last(sink)[2].commandName
    /\ Last(sink)[1].toolbeltVersion # Last(sink)[2].toolbeltVersion
    /\ \E j \in 1..2 :
          /\ Last(sink)[j].totalExecutions = 2 /\ Last(sink)[j].totalErrors = 1
          /\ Last(sink)[j].minRuntime = 1 /\ Last(sink)[j].maxRuntime = 4

\* The step is a call of _exit.
ExitCalled == Len(trace') = Len(trace) + 1 /\ Last(trace') = "exit"

\* C20: once the exit step chooses a hard exit, the process eventually
\* terminates with the pending exit code: within the exit step when the log
\* level is error, otherwise from the timer of the log-flush wait, after the
\* rest of the promise chain and its final spinner stop have run; under a
\* soft exit the exit step never terminates the process.
HardExitTerminates ==
    /\ [][ ExitCalled =>
              LET hard == softExitOf(exitCfg') = "undef"
              IN  /\ (hard /\ exitCfg'.isError) =>
                        (exitStatus' = ExitStatusOf(exitCode') /\ pc' = "exited")
                  /\ (hard /\ ~exitCfg'.isError) =>
                        (exitTimer' /\ exitStatus' = Undef /\ pc' = "finally")
                  /\ ~hard => (exitStatus' = Undef /\ ~exitTimer') ]_vars
    /\ exitTimer ~> (exitStatus # Undef)
    /\ [][ exitTimer =>
              /\ exitCode' = exitCode
              /\ exitStatus' # Undef =>
                    /\ pc = "settled" /\ ~spinner.spinning
                    /\ exitStatus' = ExitStatusOf(exitCode) ]_vars
    /\ [](exitStatus # Undef => (exitCfg.read /\ softExitOf(exitCfg) = "undef"))
    /\ []((exitCfg.read /\ softExitOf(exitCfg) # "undef") =>
             (exitStatus = Undef /\ ~exitTimer))

\* C20 witness: the timer of a delayed hard exit terminated the process with
\* the failure exit code after the chain had settled.
DelayedHardExitDone ==
    /\ pc = "exited" /\ exitStatus = 1 /\ ~exitTimer
    /\ exitCfg.read /\ ~exitCfg.isError /\ softExitOf(exitCfg) = "undef"
    /\ Called("logError") /\ Called("exit")

\* No progress indicator runs and the Context holds no indicator handle.
SpinnerStopped == ~spinner.handle /\ ~spinner.spinning /\ spinner.timers = 0

\* C21: the progress indicator is started only after validation and before
\* execute is called, and only outside json mode; it is stopped on every
\* terminal path: whenever an outcome has been reported and whenever the
\* invocation's promise has settled or the process has exited, no indicator
\* is running and the Context holds no indicator handle.
SpinnerStoppedOnTerminalPaths ==
    /\ [][ spinner'.created # spinner.created =>
              /\ pc = "spinner" /\ pc' = "execute"
              /\ chain.ok /\ ~ctx.json
              /\ ~Called("validateFailed")
              /\ ~Called("executeResolved") /\ ~Called("executeRejected")
              /\ sp.phase = "idle" ]_vars
    /\ []((reports # <<>> \/ Called("logSuccess") \/ Called("logError")
              \/ Finished) => SpinnerStopped)
    /\ [](spinner.created <= 1 /\ spinner.timers <= 1)

\* C21 witness: an indicator was started, the command failed, the error was
\* reported and the promise settled with the indicator stopped.
SpinnerStoppedAfterFailure ==
    /\ spinner.created = 1 /\ SpinnerStopped
    /\ pc = "settled" /\ Called("executeRejected")
    /\ Len(reports) = 1 /\ reports[1].kind = "error"

\* C22: in human mode the error reporter picks exactly one rendering:
\* tabular if the error carries both rows and columns, also when it has an
\* action; otherwise message plus action if it has an action; otherwise
\* plain text; and in each case the structured error is logged as well.
HumanRenderingPrefersTable ==
    [][ (Len(reports') = Len(reports) + 1 /\ Last(reports').mode = "human") =>
          LET err == chain'.err
              report == Last(reports')
          IN  /\ report.rendering =
                    (IF err.rows /\ err.columns THEN "table"
                     ELSE IF err.action THEN "action"
                     ELSE "text")
              /\ report.structured ]_vars

\* C23: once execute of the splitter has resolved, every chunk file and the
\* rewritten manifest have been completely written: no write that split
\* started is still pending, so a hard exit never terminates the process
\* while a chunk or the manifest is unwritten.
WritesDoneWhenExecuteResolves ==
    /\ (cmd.kind = "split" /\ Called("executeResolved")) => pending = <<>>
    /\ exitStatus # Undef => pending = <<>>

\* C24: split issues one rewrite of the manifest per plan entry without
\* waiting for the previous one; under every completion order of these
\* writes, the manifest finally on disk is the content of the last rewrite
\* issued, in which every plan entry's file list has been updated, never an
\* earlier partial version.
LastManifestRewriteWins ==
    (SplitReturned /\ pending = <<>>) => planFile = PlanValue(planRef, arrays)

\* The chunk writes among the writes ws, by position.
ChunkPositions(ws) == { i \in 1..Len(ws) : ~ws[i].isPlan }

\* The data files the manifest referenced when split loaded it.
ReferencedFiles ==
    UNION { { origPlan[e].files[k] : k \in 1..Len(origPlan[e].files) } :
            e \in 1..Len(origPlan) }

\* C25: every chunk written by one split run has a name distinct from every
\* other chunk written in that run and from every data file the manifest
\* references, and is written in the directory of its source file.
ChunkNamesAreFresh ==
    /\ [](sp.phase = "running" =>
            \A i \in ChunkPositions(pending) :
                /\ \A j \in ChunkPositions(pending) \ {i} :
                       pending[j].name # pending[i].name
                /\ pending[i].name \notin ReferencedFiles)
    /\ [][ \A i \in Len(pending) + 1 .. Len(pending') :
              ~pending'[i].isPlan => pending'[i].name.dir = CurrentFile.dir ]_vars

====
